---- MODULE Spec2Model ----
\* Fixed-step integrators of src/ODEs/ODE.py (Euler, RK2, RK4) as a state
\* machine: one call of one integrator, statement by statement.
\*
\* Numbers are IEEE-754 doubles, as in the program (np.zeros gives float64):
\* a double is <<s, m, e>> with value s * m * 2^e, s in {-1, 0, 1}, m an odd
\* natural below 2^53 written as its digits in base 2^15, least significant
\* first (zero is <<0, <<>>, 0>>).  Every operation computes the exact result
\* and rounds it to 53 bits, ties to even.  Overflow, subnormals, NaN and the
\* sign of zero are outside the values the model reaches.
\* Indices are 0-based as in the source; At(s, k) reads s[k].
EXTENDS Integers, Sequences, FiniteSets

\* ---------------------------------------------------------------- bounds
MaxN == 4      \* longest time grid
MaxH == 1      \* largest spacing between consecutive grid points, in units
MaxX0 == 1     \* largest initial condition
MaxC == 1      \* largest constant right-hand side

\* ------------------------------------------- naturals of any size (digits)
LimbBits == 15
Base == 2 ^ LimbBits
MantBits == 53     \* precision of a double

RECURSIVE NTrim(_)
NTrim(a) == IF a = <<>> \/ a[Len(a)] # 0 THEN a ELSE NTrim(SubSeq(a, 1, Len(a) - 1))

RECURSIVE NAddC(_, _, _)
NAddC(a, b, c) ==
    IF a = <<>> /\ b = <<>>
      THEN IF c = 0 THEN <<>> ELSE <<c>>
      ELSE LET s == (IF a = <<>> THEN 0 ELSE a[1]) + (IF b = <<>> THEN 0 ELSE b[1]) + c
           IN  <<s % Base>> \o NAddC(IF a = <<>> THEN a ELSE Tail(a),
                                     IF b = <<>> THEN b ELSE Tail(b), s \div Base)

NAdd(a, b) == NAddC(a, b, 0)

RECURSIVE NSubB(_, _, _)
NSubB(a, b, c) ==
    IF a = <<>>
      THEN <<>>
      ELSE LET s == a[1] - (IF b = <<>> THEN 0 ELSE b[1]) - c
           IN  <<s % Base>> \o NSubB(Tail(a), IF b = <<>> THEN b ELSE Tail(b),
                                     IF s < 0 THEN 1 ELSE 0)

NSub(a, b) == NTrim(NSubB(a, b, 0))

RECURSIVE NCmpAt(_, _, _)
NCmpAt(a, b, k) ==
    IF k = 0 THEN 0
    ELSE IF a[k] < b[k] THEN -1
    ELSE IF a[k] > b[k] THEN 1
    ELSE NCmpAt(a, b, k - 1)

NCmp(a, b) ==
    IF Len(a) < Len(b) THEN -1
    ELSE IF Len(a) > Len(b) THEN 1
    ELSE NCmpAt(a, b, Len(a))

RECURSIVE NMulLimb(_, _, _)
NMulLimb(a, d, c) ==
    IF a = <<>>
      THEN IF c = 0 THEN <<>> ELSE <<c>>
      ELSE LET p == a[1] * d + c
           IN  <<p % Base>> \o NMulLimb(Tail(a), d, p \div Base)

RECURSIVE NMulR(_, _)
NMulR(a, b) ==
    IF b = <<>> THEN <<>>
    ELSE NAdd(NMulLimb(a, b[1], 0), <<0>> \o NMulR(a, Tail(b)))

NMul(a, b) == NTrim(NMulR(a, b))

RECURSIVE NDivFrom(_, _, _, _)
NDivFrom(a, k, r, d) ==
    IF k = 0 THEN <<<<>>, r>>
    ELSE LET cur == r * Base + a[k]
             rest == NDivFrom(a, k - 1, cur % d, d)
         IN  <<Append(rest[1], cur \div d), rest[2]>>

NDivSmall(a, d) == LET qr == NDivFrom(a, Len(a), 0, d) IN <<NTrim(qr[1]), qr[2]>>

NShl(a, k) ==
    IF a = <<>> THEN a
    ELSE [j \in 1..(k \div LimbBits) |-> 0] \o NMulLimb(a, 2 ^ (k % LimbBits), 0)

NShr(a, k) ==
    IF k \div LimbBits >= Len(a) THEN <<>>
    ELSE NDivSmall(SubSeq(a, (k \div LimbBits) + 1, Len(a)), 2 ^ (k % LimbBits))[1]

RECURSIVE IntBits(_)
IntBits(n) == IF n = 0 THEN 0 ELSE 1 + IntBits(n \div 2)

NBitLen(a) == IF a = <<>> THEN 0 ELSE (Len(a) - 1) * LimbBits + IntBits(a[Len(a)])

RECURSIVE IntTZ(_)
IntTZ(n) == IF n % 2 = 1 THEN 0 ELSE 1 + IntTZ(n \div 2)

RECURSIVE NTrailingZeros(_)
NTrailingZeros(a) ==
    IF a[1] = 0 THEN LimbBits + NTrailingZeros(Tail(a)) ELSE IntTZ(a[1])

Zero == <<0, <<>>, 0>>

Canon(s, m, e) ==
    IF m = <<>> THEN Zero
    ELSE LET z == NTrailingZeros(m) IN <<s, NShr(m, z), e + z>>

Round(s, m, e) ==
    LET L == NBitLen(m)
    IN  IF L <= MantBits THEN Canon(s, m, e)
        ELSE LET r == L - MantBits
                 q2 == NShr(m, r - 1)
                 q == NShr(q2, 1)
                 half == q2[1] % 2 = 1
                 rest == NShl(q2, r - 1) # m
                 odd == q[1] % 2 = 1
                 up == half /\ (rest \/ odd)
             IN  Canon(s, IF up THEN NAdd(q, <<1>>) ELSE q, e + r)

Num(n) == IF n = 0 THEN Zero ELSE Canon(IF n < 0 THEN -1 ELSE 1, <<IF n < 0 THEN -n ELSE n>>, 0)

Neg(a) == <<-a[1], a[2], a[3]>>

Mul(a, b) ==
    IF a[1] = 0 \/ b[1] = 0 THEN Zero
    ELSE Round(a[1] * b[1], NMul(a[2], b[2]), a[3] + b[3])

Add(a, b) ==
    IF a[1] = 0 THEN b
    ELSE IF b[1] = 0 THEN a
    ELSE LET e == IF a[3] < b[3] THEN a[3] ELSE b[3]
             ma == NShl(a[2], a[3] - e)
             mb == NShl(b[2], b[3] - e)
             c == NCmp(ma, mb)
         IN  IF a[1] = b[1] THEN Round(a[1], NAdd(ma, mb), e)
             ELSE IF c = 0 THEN Zero
             ELSE IF c > 0 THEN Round(a[1], NSub(ma, mb), e)
             ELSE Round(b[1], NSub(mb, ma), e)

Sub(a, b) == Add(a, Neg(b))

\* a / b, correctly rounded, for a divisor whose m is a single digit (the
\* source divides by the literals 2 and 6 only)
Div(a, b) ==
    IF a[1] = 0 THEN Zero
    ELSE LET k == MantBits + 4 + LimbBits
             qr == NDivSmall(NShl(a[2], k), b[2][1])
             m == NAdd(NShl(qr[1], 1), IF qr[2] = 0 THEN <<>> ELSE <<1>>)
         IN  Round(a[1] * b[1], m, a[3] - b[3] - k - 1)

\* ------------------------------------------------------------- inputs
At(s, k) == s[k + 1]

\* Caller-supplied right-hand sides f(x, t) = a*x + b*t + c: the constants
\* 0..MaxC, and 0, t, -x, t - x.
FSet == [a : {0}, b : {0}, c : 0..MaxC] \cup [a : {-1, 0}, b : {0, 1}, c : {0}]

F(f, x, t) == Add(Add(Mul(Num(f.a), x), Mul(Num(f.b), t)), Num(f.c))

RECURSIVE PartialSum(_, _)
PartialSum(ds, k) == IF k = 0 THEN 0 ELSE ds[k] + PartialSum(ds, k - 1)

\* the double 0.1
Tenth == Div(Num(1), Num(10))

\* grid points are whole multiples of 1.0 or of 0.1
Units == {Num(1), Tenth}

GridFrom(u, t0, ds) ==
    [k \in 1..(Len(ds) + 1) |-> Mul(u, Num(t0 + PartialSum(ds, k - 1)))]

\* whole grids start at 0, grids of tenths at 0.1
Starts(u) == IF u = Num(1) THEN {0} ELSE {1}

\* Time grids: empty, or a start point followed by up to MaxN-1 spacings;
\* spacings may differ, be zero or be negative (the code accepts them all).
Grids ==
    {<<>>} \cup
    UNION {{GridFrom(u, t0, ds) :
               t0 \in Starts(u),
               ds \in UNION {[1..n -> (-1)..MaxH] : n \in 0..(MaxN - 1)}} :
           u \in Units}

\* what the caller passes as t: a numpy array, or a plain Python list (the
\* type the signature annotates), which has no attribute size
Kinds == {"ndarray", "list"}

Methods == {"Euler", "RK2", "RK4"}

\* np.zeros(n)
Zeros(n) == [k \in 1..n |-> Zero]

\* ------------------------------------------------------ stepping rules
\* slip: the slope is sampled at the end of the step, f(x[i], t[i] + h)
EulerNextLateTime(ff, xi, ti, hh) == Add(xi, Mul(hh, F(ff, xi, Add(ti, hh))))

EulerNext(ff, xi, ti, hh) == Add(xi, Mul(hh, F(ff, xi, ti)))

\* slip: Heun's average of k1 and k2 advances the state instead of k2 alone
RK2NextHeun(ff, xi, ti, hh) ==
    LET k1 == Mul(hh, F(ff, xi, ti))
        k2 == Mul(hh, F(ff, Add(xi, Div(k1, Num(2))), Add(ti, Div(hh, Num(2)))))
    IN  Add(xi, Div(Add(k1, k2), Num(2)))

RK2Next(ff, xi, ti, hh) ==
    LET k1 == Mul(hh, F(ff, xi, ti))
        k2 == Mul(hh, F(ff, Add(xi, Div(k1, Num(2))), Add(ti, Div(hh, Num(2)))))
    IN  Add(xi, k2)

\* slip: k4 is formed from k2 instead of k3
RK4NextK4FromK2(ff, xi, ti, hh) ==
    LET k1 == Mul(hh, F(ff, xi, ti))
        k2 == Mul(hh, F(ff, Add(xi, Div(k1, Num(2))), Add(ti, Div(hh, Num(2)))))
        k3 == Mul(hh, F(ff, Add(xi, Div(k2, Num(2))), Add(ti, Div(hh, Num(2)))))
        k4 == Mul(hh, F(ff, Add(xi, k2), Add(ti, hh)))
    IN  Add(xi, Mul(Div(Num(1), Num(6)),
                    Add(Add(Add(k1, Mul(Num(2), k2)), Mul(Num(2), k3)), k4)))

\* slip: the weight 2 of k3 is dropped, so the weights no longer sum to 6
RK4NextBadWeights(ff, xi, ti, hh) ==
    LET k1 == Mul(hh, F(ff, xi, ti))
        k2 == Mul(hh, F(ff, Add(xi, Div(k1, Num(2))), Add(ti, Div(hh, Num(2)))))
        k3 == Mul(hh, F(ff, Add(xi, Div(k2, Num(2))), Add(ti, Div(hh, Num(2)))))
        k4 == Mul(hh, F(ff, Add(xi, k3), Add(ti, hh)))
    IN  Add(xi, Mul(Div(Num(1), Num(6)),
                    Add(Add(Add(k1, Mul(Num(2), k2)), k3), k4)))

\* x[i] + (1/6) * (k1 +2*k2 + 2*k3 +k4): 1/6 is itself a rounded double, and
\* the sum is formed left to right
RK4Next(ff, xi, ti, hh) ==
    LET k1 == Mul(hh, F(ff, xi, ti))
        k2 == Mul(hh, F(ff, Add(xi, Div(k1, Num(2))), Add(ti, Div(hh, Num(2)))))
        k3 == Mul(hh, F(ff, Add(xi, Div(k2, Num(2))), Add(ti, Div(hh, Num(2)))))
        k4 == Mul(hh, F(ff, Add(xi, k3), Add(ti, hh)))
    IN  Add(xi, Mul(Div(Num(1), Num(6)),
                    Add(Add(Add(k1, Mul(Num(2), k2)), Mul(Num(2), k3)), k4)))

\* --------------------------------------------------------------- state
VARIABLES
    method,   \* which integrator was called
    f, t, x0, \* its arguments
    tkind,    \* the type of the argument t
    pc,       \* next statement: "h", "alloc", "init", "loop", "done", "raised"
    h, x, i,  \* its locals (h, x, i hold placeholders until assigned)
    exc,      \* the exception that ended the call, "none" otherwise
    fcalls,   \* number of calls made to f so far
    writes    \* indices of x assigned so far, in order

vars == <<method, f, t, x0, tkind, pc, h, x, i, exc, fcalls, writes>>

args == <<method, f, t, x0, tkind>>

Init ==
    /\ method \in Methods
    /\ f \in FSet
    /\ t \in Grids
    /\ tkind \in Kinds
    /\ x0 \in {Num(n) : n \in 0..MaxX0}
    /\ pc = "h"
    /\ h = Zero
    /\ x = <<>>
    /\ i = 0
    /\ exc = "none"
    /\ fcalls = 0
    /\ writes = <<>>

\* h = t[1] - t[0]: t[1] is evaluated first and raises IndexError when the
\* grid (array or list) has fewer than two points.
ReadStep ==
    /\ pc = "h"
    /\ IF Len(t) < 2
         THEN /\ pc' = "raised"
              /\ exc' = "IndexError"
              /\ h' = h
         ELSE /\ pc' = "alloc"
              /\ exc' = exc
              /\ h' = Sub(At(t, 1), At(t, 0))
    /\ UNCHANGED <<args, x, i, fcalls, writes>>

\* x = np.zeros(t.size): a list has no attribute size
Alloc ==
    /\ pc = "alloc"
    /\ IF tkind = "list"
         THEN /\ pc' = "raised"
              /\ exc' = "AttributeError"
              /\ x' = x
         ELSE /\ pc' = "init"
              /\ exc' = exc
              /\ x' = Zeros(Len(t))
    /\ UNCHANGED <<args, h, i, fcalls, writes>>

\* x[0] = x0
SetInitial ==
    /\ pc = "init"
    /\ x' = [x EXCEPT ![1] = x0]
    /\ writes' = Append(writes, 0)
    /\ pc' = "loop"
    /\ i' = 0
    /\ UNCHANGED <<args, h, exc, fcalls>>

\* slip: the step uses the local spacing t[i+1] - t[i] instead of h
EulerStepLocalH ==
    /\ pc = "loop"
    /\ method = "Euler"
    /\ i < Len(t) - 1
    /\ x' = [x EXCEPT ![i + 2] =
                EulerNext(f, At(x, i), At(t, i), Sub(At(t, i + 1), At(t, i)))]
    /\ writes' = Append(writes, i + 1)
    /\ fcalls' = fcalls + 1
    /\ i' = i + 1
    /\ UNCHANGED <<args, pc, h, exc>>

\* one iteration of "for i in range(t.size-1)" in Euler
EulerStep ==
    /\ pc = "loop"
    /\ method = "Euler"
    /\ i < Len(t) - 1
    /\ x' = [x EXCEPT ![i + 2] = EulerNext(f, At(x, i), At(t, i), h)]
    /\ writes' = Append(writes, i + 1)
    /\ fcalls' = fcalls + 1
    /\ i' = i + 1
    /\ UNCHANGED <<args, pc, h, exc>>

\* slip: the step assigns x[i] in place instead of x[i+1]
RK2StepInPlace ==
    /\ pc = "loop"
    /\ method = "RK2"
    /\ i < Len(t) - 1
    /\ x' = [x EXCEPT ![i + 1] = RK2Next(f, At(x, i), At(t, i), h)]
    /\ writes' = Append(writes, i)
    /\ fcalls' = fcalls + 2
    /\ i' = i + 1
    /\ UNCHANGED <<args, pc, h, exc>>

\* one iteration of the loop in RK2
RK2Step ==
    /\ pc = "loop"
    /\ method = "RK2"
    /\ i < Len(t) - 1
    /\ x' = [x EXCEPT ![i + 2] = RK2Next(f, At(x, i), At(t, i), h)]
    /\ writes' = Append(writes, i + 1)
    /\ fcalls' = fcalls + 2
    /\ i' = i + 1
    /\ UNCHANGED <<args, pc, h, exc>>

\* one iteration of the loop in RK4
RK4Step ==
    /\ pc = "loop"
    /\ method = "RK4"
    /\ i < Len(t) - 1
    /\ x' = [x EXCEPT ![i + 2] = RK4Next(f, At(x, i), At(t, i), h)]
    /\ writes' = Append(writes, i + 1)
    /\ fcalls' = fcalls + 4
    /\ i' = i + 1
    /\ UNCHANGED <<args, pc, h, exc>>

\* range exhausted: return x
Return ==
    /\ pc = "loop"
    /\ i >= Len(t) - 1
    /\ pc' = "done"
    /\ UNCHANGED <<args, h, x, i, exc, fcalls, writes>>

Next ==
    \/ ReadStep
    \/ Alloc
    \/ SetInitial
    \/ EulerStep
    \/ RK2Step
    \/ RK4Step
    \/ Return

Spec == Init /\ [][Next]_vars

\* ------------------------------------------------------------ properties
Terminated == pc \in {"done", "raised"}

\* the step size the source computes on line 45, from the grid itself
FirstSpacing == Sub(At(t, 1), At(t, 0))

\* the stepping rule of the called integrator
Advance(m, ff, xi, ti, hh) ==
    CASE m = "Euler" -> EulerNext(ff, xi, ti, hh)
      [] m = "RK2"   -> RK2Next(ff, xi, ti, hh)
      [] m = "RK4"   -> RK4Next(ff, xi, ti, hh)

\* |a| and a <= b on doubles (the sign of a rounded difference is the sign
\* of the exact one)
AbsF(a) == <<IF a[1] = 0 THEN 0 ELSE 1, a[2], a[3]>>

Leq(a, b) == Sub(b, a)[1] >= 0

\* k1 + 2*k2 + 2*k3 + k4 of step k of the trajectory, summed left to right
RK4Sum(k) ==
    LET hh == FirstSpacing
        xk == At(x, k)
        tk == At(t, k)
        half == Div(hh, Num(2))
        k1 == Mul(hh, F(f, xk, tk))
        k2 == Mul(hh, F(f, Add(xk, Div(k1, Num(2))), Add(tk, half)))
        k3 == Mul(hh, F(f, Add(xk, Div(k2, Num(2))), Add(tk, half)))
        k4 == Mul(hh, F(f, Add(xk, k3), Add(tk, hh)))
    IN  Add(Add(Add(k1, Mul(Num(2), k2)), Mul(Num(2), k3)), k4)

\* x0 + k*h*c for the constant right-hand side c
ClosedForm(k) == Add(x0, Mul(Num(k), Mul(FirstSpacing, Num(f.c))))

\* rounding allowance at index k: 16 * k * 2^-53 * (|x0| + k*|h*c|)
Tolerance(k) ==
    Mul(Mul(Num(k), <<1, <<1>>, -49>>),
        Add(AbsF(x0), Mul(Num(k), AbsF(Mul(FirstSpacing, Num(f.c))))))

\* C1: on a grid of length 1 every integrator returns normally the
\* one-element sequence [x0] without calling f.
C1_SinglePointReturnsX0 ==
    (Len(t) = 1 /\ Terminated) =>
        (pc = "done" /\ exc = "none" /\ x = <<x0>> /\ fcalls = 0)

\* C2: on a grid of length 0 every integrator returns normally an empty
\* result without calling f.
C2_EmptyGridReturnsEmpty ==
    (Len(t) = 0 /\ Terminated) =>
        (pc = "done" /\ exc = "none" /\ x = <<>> /\ fcalls = 0)

\* C3: for every f, x0 and grid t the call returns a sequence whose length
\* is the length of t.
C3_ResultLengthIsGridLength ==
    Terminated => (pc = "done" /\ Len(x) = Len(t))

\* C4: for every non-empty grid the call returns a result with
\* result[0] = x0, and once index 0 holds x0 no step overwrites it.
C4_FirstEntryIsX0 ==
    /\ (Len(t) >= 1 /\ Terminated) => (pc = "done" /\ At(x, 0) = x0)
    /\ pc \in {"loop", "done"} => At(x, 0) = x0

\* C5: Euler on a grid of length N >= 2, h = t[1]-t[0]: the result has
\* x[k+1] = x[k] + h*f(x[k], t[k]) for every k in 0..N-2;
\* t = [0,1,2,3], x0 = 0, f = 1 returns [0,1,2,3].
C5_EulerRecurrence ==
    (method = "Euler" /\ pc = "done") =>
        /\ Len(x) = Len(t)
        /\ \A k \in 0..(Len(t) - 2) :
              At(x, k + 1) =
                  Add(At(x, k), Mul(FirstSpacing, F(f, At(x, k), At(t, k))))
        /\ (/\ t = <<Num(0), Num(1), Num(2), Num(3)>>
            /\ x0 = Num(0)
            /\ f = [a |-> 0, b |-> 0, c |-> 1])
           => x = <<Num(0), Num(1), Num(2), Num(3)>>

C5_Witness ==
    /\ method = "Euler"
    /\ pc = "done"
    /\ t = <<Num(0), Num(1), Num(2), Num(3)>>
    /\ x0 = Num(0)
    /\ f = [a |-> 0, b |-> 0, c |-> 1]
    /\ x = <<Num(0), Num(1), Num(2), Num(3)>>
    /\ fcalls = 3

\* C6 as stated: RK4 on a grid of length N >= 2, h = t[1]-t[0]: every
\* step k in 0..N-2 of the result has k1 = h*f(x[k], t[k]), k2 = h*f(x[k]+k1/2, t[k]+h/2),
\* k3 = h*f(x[k]+k2/2, t[k]+h/2), k4 = h*f(x[k]+k3, t[k]+h) and
\* x[k+1] = x[k] + (k1+2*k2+2*k3+k4)/6, the sum divided by 6.
C6_RK4DividesBySix ==
    (method = "RK4" /\ pc = "done") =>
        /\ Len(x) = Len(t)
        /\ \A k \in 0..(Len(t) - 2) :
              At(x, k + 1) = Add(At(x, k), Div(RK4Sum(k), Num(6)))

\* C6 as amended: the same k1..k4, and x[k+1] = x[k] + (1/6)*(k1+2*k2+2*k3+k4)
\* where 1/6 is the double nearest to one sixth and the product is rounded:
\* the sum is multiplied by that double, not divided by 6.
C6_RK4Recurrence ==
    (method = "RK4" /\ pc = "done") =>
        /\ Len(x) = Len(t)
        /\ \A k \in 0..(Len(t) - 2) :
              At(x, k + 1) =
                  Add(At(x, k), Mul(Div(Num(1), Num(6)), RK4Sum(k)))

\* dx/dt = t - x from x0 = 0 over t = [0, -1]: the step stores
\* 0.7083333333333333, while dividing the sum by 6 gives 0.7083333333333334
C6_Witness ==
    /\ method = "RK4"
    /\ pc = "done"
    /\ t = <<Num(0), Num(-1)>>
    /\ x0 = Num(0)
    /\ f = [a |-> -1, b |-> 1, c |-> 0]
    /\ x = <<Zero, <<1, <<21845, 10922, 21845, 90>>, -52>>>>
    /\ At(x, 1) # Add(At(x, 0), Div(RK4Sum(0), Num(6)))
    /\ fcalls = 4

\* C7: RK2 on a grid of length N >= 2, h = t[1]-t[0]: every step k in
\* 0..N-2 of the result has k1 = h*f(x[k], t[k]),
\* k2 = h*f(x[k]+k1/2, t[k]+h/2), x[k+1] = x[k] + k2: k1 only forms the
\* midpoint.
C7_RK2Recurrence ==
    (method = "RK2" /\ pc = "done") =>
        /\ Len(x) = Len(t)
        /\ \A k \in 0..(Len(t) - 2) :
              LET hh == FirstSpacing
                  xk == At(x, k)
                  tk == At(t, k)
                  k1 == Mul(hh, F(f, xk, tk))
                  k2 == Mul(hh, F(f, Add(xk, Div(k1, Num(2))),
                                     Add(tk, Div(hh, Num(2)))))
              IN  At(x, k + 1) = Add(xk, k2)

\* dx/dt = -x from x0 = 1 with h = 1: each RK2 step multiplies by 1/2
\* (x + k1 would give 0, the average of k1 and k2 would give 1/4)
C7_Witness ==
    /\ method = "RK2"
    /\ pc = "done"
    /\ t = <<Num(0), Num(1), Num(2)>>
    /\ x0 = Num(1)
    /\ f = [a |-> -1, b |-> 0, c |-> 0]
    /\ x = <<Num(1), <<1, <<1>>, -1>>, <<1, <<1>>, -2>>>>
    /\ fcalls = 4

\* C8 as stated: for a constant right-hand side f(x,t) = c and a grid of
\* length N >= 2, Euler, RK2 and RK4 alike give exactly x[k] = x0 + k*h*c at
\* every index (so the three results are the same sequence); for c = 0
\* every entry is x0.
C8_ConstantSlopeExact ==
    (pc = "done" /\ f.a = 0 /\ f.b = 0) =>
        /\ Len(x) = Len(t)
        /\ \A k \in 0..(Len(t) - 1) : At(x, k) = ClosedForm(k)
        /\ f.c = 0 => \A k \in 0..(Len(t) - 1) : At(x, k) = x0

\* C8 as amended: for f(x,t) = c, each of Euler, RK2 and RK4 gives x[k]
\* within rounding of x0 + k*h*c, |x[k] - (x0 + k*h*c)| <= 16*k*2^-53 *
\* (|x0| + k*|h*c|), at every index; for c = 0 every entry is x0 exactly.
C8_ConstantSlopeWithinRounding ==
    (pc = "done" /\ f.a = 0 /\ f.b = 0) =>
        /\ Len(x) = Len(t)
        /\ \A k \in 0..(Len(t) - 1) :
              Leq(AbsF(Sub(At(x, k), ClosedForm(k))), Tolerance(k))
        /\ f.c = 0 => \A k \in 0..(Len(t) - 1) : At(x, k) = x0

\* RK4 with f = 1 on a grid with a spacing that is no exact double: some
\* entry is not the double x0 + k*h*c, yet lies within the allowance
C8_Witness ==
    /\ method = "RK4"
    /\ pc = "done"
    /\ f = [a |-> 0, b |-> 0, c |-> 1]
    /\ Len(t) = 4
    /\ \E k \in 1..3 :
          /\ At(x, k) # ClosedForm(k)
          /\ Leq(AbsF(Sub(At(x, k), ClosedForm(k))), Tolerance(k))

\* C9: h is t[1]-t[0] in every state after it is read, before the loop, and
\* never changes; every step k of the result advanced with that h even
\* where the grid spacing differs, and passed the grid value t[k] to f.
C9_StepSizeFixed ==
    pc \in {"alloc", "init", "loop", "done"} =>
        /\ h = FirstSpacing
        /\ pc = "done" =>
              \A k \in 0..(Len(t) - 2) :
                 At(x, k + 1) =
                     Advance(method, f, At(x, k), At(t, k), FirstSpacing)

\* a returned trajectory on a non-uniform grid: at some step the spacing of
\* the grid is not h, and neither the local spacing nor the time t[0]+k*h
\* would have given the value the step wrote
C9_Witness ==
    /\ pc = "done"
    /\ \E k \in 1..(Len(t) - 2) :
          LET local == Sub(At(t, k + 1), At(t, k))
              ideal == Add(At(t, 0), Mul(Num(k), h))
          IN  /\ local # h
              /\ At(t, k) # ideal
              /\ At(x, k + 1) # Advance(method, f, At(x, k), At(t, k), local)
              /\ At(x, k + 1) # Advance(method, f, At(x, k), ideal, h)

\* C10: entries are assigned in strictly increasing index order, each
\* once (index 0 first, then 1..N-1); the value a step writes at i+1 is the
\* stepping rule applied to x[i], t[i], h and f; a step changes no entry
\* written before, and the grid t is never changed.
C10_WriteOrder ==
    [][/\ t' = t
       /\ writes' = [k \in 1..Len(writes') |-> k - 1]
       /\ Len(writes') \in {Len(writes), Len(writes) + 1}
       /\ \A k \in 1..Len(writes) : x'[k] = x[k]
       /\ (pc = "loop" /\ pc' = "loop") =>
             /\ Len(writes') = Len(writes) + 1
             /\ At(x', i + 1) = Advance(method, f, At(x, i), At(t, i), h)
       /\ pc' = "done" => Len(writes') = Len(t)
      ]_vars

C10_Witness ==
    /\ pc = "done"
    /\ Len(t) = 4
    /\ writes = <<0, 1, 2, 3>>
    /\ \A k \in 1..3 : x[k + 1] # x[k]

====
